---- MODULE Spec2Model ----
(***************************************************************************)
(* A model of generic-greet (src/src/lib.rs): subjects that have a name,   *)
(* the binary sum Either used for subjects and for greeters, the trait     *)
(* resolution that forwards name() and greet() through the sums, and the   *)
(* bulk operations greet_many of v6, v7 and v8.                            *)
(*                                                                         *)
(* A Rust String is a sequence of one-character strings.  A Rust type is a *)
(* tuple whose head is the type constructor's name: trait resolution picks *)
(* an impl by the static type, a match picks a branch by the value's tag.  *)
(***************************************************************************)
EXTENDS Integers, Sequences, FiniteSets, TLC

VARIABLES subjects, handlers, call, sel, out

vars == <<subjects, handlers, call, sel, out>>

\* ------------------------------------------------------------------ bounds

MaxSubjects == 2
MaxHandlers == 2
MaxId == 12

\* ------------------------------------------------------- text and format!

\* Display for u64: the decimal digits, most significant first.
RECURSIVE u64_fmt(_)
u64_fmt(n) ==
  IF n < 10 THEN <<<<"0", "1", "2", "3", "4", "5", "6", "7", "8", "9">>[n + 1]>>
  ELSE u64_fmt(n \div 10) \o <<<<"0", "1", "2", "3", "4", "5", "6", "7", "8", "9">>[(n % 10) + 1]>>

\* format!: the characters of fmt, each "{}" replaced by the next argument.
RECURSIVE format_from(_, _, _, _)
format_from(fmt, i, args, k) ==
  IF i > Len(fmt) THEN <<>>
  ELSE IF fmt[i] = "{" /\ i < Len(fmt) /\ fmt[i + 1] = "}"
       THEN args[k] \o format_from(fmt, i + 2, args, k + 1)
       ELSE <<fmt[i]>> \o format_from(fmt, i + 1, args, k)

format(fmt, args) == format_from(fmt, 1, args, 1)

\* ------------------------------------------------------------------ types

TFormalPerson == <<"FormalPerson">>
TCasualPerson == <<"CasualPerson">>
TAnonymous == <<"Anonymous">>
TAnyPerson == <<"AnyPerson">>
TEither(A, B) == <<"Either", A, B>>
AnyPersonGeneric == TEither(TFormalPerson, TEither(TCasualPerson, TAnonymous))

\* ----------------------------------------------------------------- values

FormalPerson_new(title, first_name, last_name) ==
  [title |-> title, first_name |-> first_name, last_name |-> last_name]

CasualPerson_new(name) == [name |-> name]

Anonymous_new(id) == [id |-> id]

Left(a) == [tag |-> "Left", val |-> a]
Right(b) == [tag |-> "Right", val |-> b]

\* ---------------------------------------------------------------- HasName

\* Mutant of FormalPerson_name: the first name is left out.
FormalPerson_name_no_first(self) ==
  format(<<"{", "}", " ", "{", "}">>, <<self.title, self.last_name>>)

FormalPerson_name(self) ==
  format(<<"{", "}", " ", "{", "}", " ", "{", "}">>, <<self.title, self.first_name, self.last_name>>)

CasualPerson_name(self) == self.name

Anonymous_name(self) == format(<<"A", "n", "o", "n", "y", "m", "o", "u", "s", " ", "#", "{", "}">>, <<u64_fmt(self.id)>>)

RECURSIVE HasName_name(_, _)

\* Mutant of Either_name: the Right arm marks the name it forwards.
Either_name_marks_right(T, self) ==
  CASE self.tag = "Left" -> HasName_name(T[2], self.val)
    [] self.tag = "Right" -> <<">">> \o HasName_name(T[3], self.val)

\* impl HasName for Either<A, B>, at the type T = Either<A, B>.
Either_name(T, self) ==
  CASE self.tag = "Left" -> HasName_name(T[2], self.val)
    [] self.tag = "Right" -> HasName_name(T[3], self.val)

\* impl HasName for AnyPerson: self.0.name().
AnyPerson_name(self) == HasName_name(AnyPersonGeneric, self[1])

\* Trait resolution of T: HasName.
HasName_name(T, self) ==
  CASE T = TFormalPerson -> FormalPerson_name(self)
    [] T = TCasualPerson -> CasualPerson_name(self)
    [] T = TAnonymous -> Anonymous_name(self)
    [] T = TAnyPerson -> AnyPerson_name(self)
    [] T[1] = "Either" -> Either_name(T, self)

AnyPerson_formal(person) == <<Left(person)>>
AnyPerson_casual(person) == <<Right(Left(person))>>
\* Mutant of AnyPerson_anon: the argument is dropped for a default subject.
AnyPerson_anon_default(person) == <<Right(Right(Anonymous_new(0)))>>

AnyPerson_anon(person) == <<Right(Right(person))>>

\* ------------------------------------------------------------ v6 Greeter

\* v6 greeters take any &impl HasName: P is the subject's static type.
THelloGreeter == <<"HelloGreeter">>
TWordGreeter == <<"WordGreeter">>

HelloGreeter == <<>>
WordGreeter_new(greet_word) == [greet_word |-> greet_word]

v6_HelloGreeter_greet(P, self, person) ==
  format(<<"h", "e", "l", "l", "o", ",", " ", "{", "}", "!">>, <<HasName_name(P, person)>>)

\* Mutant of v6_WordGreeter_greet: the comma is missing from the format.
v6_WordGreeter_greet_no_comma(P, self, person) ==
  format(<<"{", "}", " ", "{", "}", "!">>, <<self.greet_word, HasName_name(P, person)>>)

v6_WordGreeter_greet(P, self, person) ==
  format(<<"{", "}", ",", " ", "{", "}", "!">>, <<self.greet_word, HasName_name(P, person)>>)

\* Trait resolution of G: Greeter (v6).
v6_Greeter_greet(G, P, self, person) ==
  CASE G = THelloGreeter -> v6_HelloGreeter_greet(P, self, person)
    [] G = TWordGreeter -> v6_WordGreeter_greet(P, self, person)

\* persons.iter().map(|person| greeter.greet(person)).collect()
RECURSIVE v6_greet_many_iter(_, _, _, _, _)
v6_greet_many_iter(G, P, greeter, persons, acc) ==
  IF persons = <<>> THEN acc
  ELSE v6_greet_many_iter(G, P, greeter, Tail(persons),
         Append(acc, v6_Greeter_greet(G, P, greeter, Head(persons))))

v6_greet_many(G, P, greeter, persons) ==
  v6_greet_many_iter(G, P, greeter, persons, <<>>)

\* ------------------------------------------------------------ v7 Greeter

TCustomGreeter == <<"CustomGreeter">>
TAnyPersonGreeter(G) == <<"AnyPersonGreeter", G>>

CustomGreeter == <<>>
AnyPersonGreeter(g) == <<g>>

\* Mutant of v7_CustomGreeter_greet_FormalPerson: first name for last name.
v7_CustomGreeter_greet_FormalPerson_first(self, person) ==
  format(<<"W", "e", "l", "c", "o", "m", "e", " ", "b", "a", "c", "k", ",", " ", "{", "}", " ", "{", "}", "!">>, <<person.title, person.first_name>>)

v7_CustomGreeter_greet_FormalPerson(self, person) ==
  format(<<"W", "e", "l", "c", "o", "m", "e", " ", "b", "a", "c", "k", ",", " ", "{", "}", " ", "{", "}", "!">>, <<person.title, person.last_name>>)

v7_CustomGreeter_greet_CasualPerson(self, person) ==
  format(<<"H", "e", "l", "l", "o", ",", " ", "{", "}", "!">>, <<person.name>>)

v7_CustomGreeter_greet_Anonymous(self, person) ==
  format(<<"H", "e", "l", "l", "o", " ", "s", "t", "r", "a", "n", "g", "e", "r", ",", " ", "y", "o", "u", "r", " ", "I", "D", " ", "i", "s", " ", "{", "}", ".">>, <<u64_fmt(person.id)>>)

RECURSIVE v7_Greeter_greet(_, _, _, _)

\* impl<G, A, B> Greeter<Either<A, B>> for G, at P = Either<A, B>.
v7_Either_greet(G, P, self, person) ==
  CASE person.tag = "Left" -> v7_Greeter_greet(G, P[2], self, person.val)
    [] person.tag = "Right" -> v7_Greeter_greet(G, P[3], self, person.val)

\* impl Greeter<AnyPerson> for AnyPersonGreeter<G>: self.0.greet(&person.0).
v7_AnyPersonGreeter_greet(G, self, person) ==
  v7_Greeter_greet(G[2], AnyPersonGeneric, self[1], person[1])

\* Trait resolution of G: Greeter<P>.
v7_Greeter_greet(G, P, self, person) ==
  CASE G[1] = "AnyPersonGreeter" /\ P = TAnyPerson ->
         v7_AnyPersonGreeter_greet(G, self, person)
    [] G = TCustomGreeter /\ P = TFormalPerson ->
         v7_CustomGreeter_greet_FormalPerson(self, person)
    [] G = TCustomGreeter /\ P = TCasualPerson ->
         v7_CustomGreeter_greet_CasualPerson(self, person)
    [] G = TCustomGreeter /\ P = TAnonymous ->
         v7_CustomGreeter_greet_Anonymous(self, person)
    [] P[1] = "Either" ->
         v7_Either_greet(G, P, self, person)

\* persons.iter().map(|person| greeter.greet(person)).collect()
RECURSIVE v7_greet_many_iter(_, _, _, _, _)
v7_greet_many_iter(G, P, greeter, persons, acc) ==
  IF persons = <<>> THEN acc
  ELSE v7_greet_many_iter(G, P, greeter, Tail(persons),
         Append(acc, v7_Greeter_greet(G, P, greeter, Head(persons))))

\* Mutant of v7_greet_many: the output is collected back to front.
v7_greet_many_reversed(G, P, greeter, persons) ==
  [i \in 1..Len(persons) |->
     v7_Greeter_greet(G, P, greeter, persons[Len(persons) + 1 - i])]

v7_greet_many(G, P, greeter, persons) ==
  v7_greet_many_iter(G, P, greeter, persons, <<>>)

\* ------------------------------------------------------------ v8 Greeter

TPoliteGreeter == <<"PoliteGreeter">>
TPersonGreeter(P) == <<"PersonGreeter", P>>
TUnit(G) == <<"Unit", G>>
TWithName(G) == <<"WithName", G>>
TAnyGreeter == <<"AnyGreeter">>
AnyGreeterGeneric ==
  TEither(TUnit(TPoliteGreeter),
          TEither(TUnit(TPersonGreeter(TAnyPerson)), TWithName(TWordGreeter)))

PoliteGreeter == <<>>
Unit(g) == <<g>>
WithName(g) == <<g>>
PersonGreeter(p) == <<p>>

RECURSIVE v8_Greeter_greet(_, _, _, _)

\* impl<G, A, B> Greeter<Either<A, B>> for Unit<G>, at P = Either<A, B>.
v8_Unit_Either_greet(G, P, self, person) ==
  CASE person.tag = "Left" -> v8_Greeter_greet(G, P[2], self, person.val)
    [] person.tag = "Right" -> v8_Greeter_greet(G, P[3], self, person.val)

\* impl<G1, G2, P> Greeter<P> for Either<G1, G2>, at G = Either<G1, G2>.
v8_Either_greet(G, P, self, person) ==
  CASE self.tag = "Left" -> v8_Greeter_greet(G[2], P, self.val, person)
    [] self.tag = "Right" -> v8_Greeter_greet(G[3], P, self.val, person)

\* Mutant of WordGreeter_greet_name: the format has no closing '!'.
WordGreeter_greet_name_open(P, self, person) ==
  format(<<"{", "}", ",", " ", "{", "}">>, <<self.greet_word, HasName_name(P, person)>>)

\* impl NameGreeter for WordGreeter.
WordGreeter_greet_name(P, self, person) ==
  format(<<"{", "}", ",", " ", "{", "}", "!">>, <<self.greet_word, HasName_name(P, person)>>)

\* impl<G: NameGreeter, P: HasName> Greeter<P> for WithName<G>.
v8_WithName_greet(G, P, self, person) == WordGreeter_greet_name(P, self[1], person)

v8_PoliteGreeter_greet_FormalPerson(self, person) ==
  format(<<"W", "e", "l", "c", "o", "m", "e", " ", "b", "a", "c", "k", ",", " ", "{", "}", " ", "{", "}", "!">>, <<person.title, person.last_name>>)

v8_PoliteGreeter_greet_CasualPerson(self, person) ==
  format(<<"H", "e", "l", "l", "o", ",", " ", "{", "}", "!">>, <<person.name>>)

v8_PoliteGreeter_greet_Anonymous(self, person) ==
  format(<<"H", "e", "l", "l", "o", " ", "s", "t", "r", "a", "n", "g", "e", "r", ",", " ", "y", "o", "u", "r", " ", "I", "D", " ", "i", "s", " ", "{", "}", ".">>, <<u64_fmt(person.id)>>)

\* Mutant of v8_PersonGreeter_greet_FormalPerson: first name for last name.
v8_PersonGreeter_greet_FormalPerson_first(Q, self, person) ==
  format(<<"G", "r", "e", "e", "t", "i", "n", "g", "s", ",", " ", "{", "}", " ", "{", "}", "!", " ", "M", "y", " ", "n", "a", "m", "e", " ", "i", "s", " ", "{", "}">>,
         <<person.title, person.first_name, HasName_name(Q, self[1][1])>>)

\* Mutant of v8_PersonGreeter_greet_Anonymous: an empty default output.
v8_PersonGreeter_greet_Anonymous_empty(Q, self, person) == <<>>

\* impl<P: HasName> Greeter<_> for Unit<PersonGreeter<P>>, Q the owner's type.
v8_PersonGreeter_greet_FormalPerson(Q, self, person) ==
  format(<<"G", "r", "e", "e", "t", "i", "n", "g", "s", ",", " ", "{", "}", " ", "{", "}", "!", " ", "M", "y", " ", "n", "a", "m", "e", " ", "i", "s", " ", "{", "}">>,
         <<person.title, person.last_name, HasName_name(Q, self[1][1])>>)

v8_PersonGreeter_greet_CasualPerson(Q, self, person) ==
  format(<<"H", "i", ",", " ", "{", "}", "!", " ", "I", " ", "a", "m", " ", "{", "}">>, <<person.name, HasName_name(Q, self[1][1])>>)

v8_PersonGreeter_greet_Anonymous(Q, self, person) ==
  format(<<"H", "e", "l", "l", "o", ",", " ", "s", "t", "r", "a", "n", "g", "e", "r", " ", "w", "i", "t", "h", " ", "I", "D", " ", "#", "{", "}", "!", " ", "W", "h", "a", "t", " ", "i", "s", " ", "y", "o", "u", "r", " ", "n", "a", "m", "e", "?">>, <<u64_fmt(person.id)>>)

\* impl Greeter<AnyPerson> for AnyGreeter: self.0.greet(&person.0).
AnyGreeter_greet(self, person) ==
  v8_Greeter_greet(AnyGreeterGeneric, AnyPersonGeneric, self[1], person[1])

\* Trait resolution of G: Greeter<P>.
v8_Greeter_greet(G, P, self, person) ==
  CASE G = TAnyGreeter /\ P = TAnyPerson -> AnyGreeter_greet(self, person)
    [] G[1] = "Either" -> v8_Either_greet(G, P, self, person)
    [] G[1] = "WithName" -> v8_WithName_greet(G, P, self, person)
    [] G[1] = "Unit" /\ P[1] = "Either" -> v8_Unit_Either_greet(G, P, self, person)
    [] G = TUnit(TPoliteGreeter) /\ P = TFormalPerson ->
         v8_PoliteGreeter_greet_FormalPerson(self, person)
    [] G = TUnit(TPoliteGreeter) /\ P = TCasualPerson ->
         v8_PoliteGreeter_greet_CasualPerson(self, person)
    [] G = TUnit(TPoliteGreeter) /\ P = TAnonymous ->
         v8_PoliteGreeter_greet_Anonymous(self, person)
    [] G[1] = "Unit" /\ G[2][1] = "PersonGreeter" /\ P = TFormalPerson ->
         v8_PersonGreeter_greet_FormalPerson(G[2][2], self, person)
    [] G[1] = "Unit" /\ G[2][1] = "PersonGreeter" /\ P = TCasualPerson ->
         v8_PersonGreeter_greet_CasualPerson(G[2][2], self, person)
    [] G[1] = "Unit" /\ G[2][1] = "PersonGreeter" /\ P = TAnonymous ->
         v8_PersonGreeter_greet_Anonymous(G[2][2], self, person)

\* persons.iter().map(|person| greeter.greet(person)).collect::<Vec<_>>()
RECURSIVE v8_greet_many_inner(_, _, _, _, _)
v8_greet_many_inner(G, P, greeter, persons, acc) ==
  IF persons = <<>> THEN acc
  ELSE v8_greet_many_inner(G, P, greeter, Tail(persons),
         Append(acc, v8_Greeter_greet(G, P, greeter, Head(persons))))

\* greeters.iter().map(|greeter| ...): one Vec<String> per greeter.
RECURSIVE v8_greet_many_outer(_, _, _, _, _)
v8_greet_many_outer(G, P, greeters, persons, acc) ==
  IF greeters = <<>> THEN acc
  ELSE v8_greet_many_outer(G, P, Tail(greeters), persons,
         Append(acc, v8_greet_many_inner(G, P, Head(greeters), persons, <<>>)))

\* Iterator::flatten followed by collect.
RECURSIVE flatten(_)
flatten(vs) == IF vs = <<>> THEN <<>> ELSE Head(vs) \o flatten(Tail(vs))

\* Mutant of v8_greet_many: the two loops nested the other way round.
v8_greet_many_subject_major(G, P, greeters, persons) ==
  flatten([j \in 1..Len(persons) |->
             [i \in 1..Len(greeters) |->
                v8_Greeter_greet(G, P, greeters[i], persons[j])]])

v8_greet_many(G, P, greeters, persons) ==
  flatten(v8_greet_many_outer(G, P, greeters, persons, <<>>))

AnyGreeter_polite(greeter) == <<Left(Unit(greeter))>>
AnyGreeter_person(greeter) == <<Right(Left(Unit(PersonGreeter(greeter))))>>
AnyGreeter_word(greeter) == <<Right(Right(WithName(greeter)))>>

\* ---------------------------------------------------------- the test data

Titles == {<<"M", "r", ".">>}
FirstNames == {<<"J", "o", "h", "n">>}
LastNames == {<<"S", "m", "i", "t", "h">>}
CasualNames == {<<"A", "l", "i", "c", "e">>, <<"A", "n", "o", "n", "y", "m", "o", "u", "s", " ", "#", "8">>}
Ids == {0, 8, MaxId}

\* A subject before it is wrapped: the AnyPerson constructor and its argument.
Subjects ==
  {[ctor |-> "formal", val |-> FormalPerson_new(t, f, l)] :
      t \in Titles, f \in FirstNames, l \in LastNames}
  \cup {[ctor |-> "casual", val |-> CasualPerson_new(n)] : n \in CasualNames}
  \cup {[ctor |-> "anon", val |-> Anonymous_new(i)] : i \in Ids}

MakePerson(s) ==
  CASE s.ctor = "formal" -> AnyPerson_formal(s.val)
    [] s.ctor = "casual" -> AnyPerson_casual(s.val)
    [] s.ctor = "anon" -> AnyPerson_anon(s.val)

make_persons(ss) == [i \in 1..Len(ss) |-> MakePerson(ss[i])]

BoundedSeq(S, n) == UNION {[1..k -> S] : k \in 0..n}

\* The subject that owns a person greeter, and the words of a word greeter.
Owners == {[ctor |-> "casual", val |-> CasualPerson_new(<<"B", "o", "b">>)]}

Words == {<<"H", "i">>, <<"W", "e", "l", "c", "o", "m", "e">>}

\* A greeter before it is wrapped: the AnyGreeter constructor and its argument.
Handlers ==
  {[ctor |-> "polite", val |-> PoliteGreeter]}
  \cup {[ctor |-> "person", val |-> o] : o \in Owners}
  \cup {[ctor |-> "word", val |-> WordGreeter_new(w)] : w \in Words}

MakeGreeter(h) ==
  CASE h.ctor = "polite" -> AnyGreeter_polite(h.val)
    [] h.ctor = "person" -> AnyGreeter_person(MakePerson(h.val))
    [] h.ctor = "word" -> AnyGreeter_word(h.val)

make_greeters(hs) == [i \in 1..Len(hs) |-> MakeGreeter(hs[i])]

\* ---------------------------------------------------------- specification

Init ==
  /\ subjects \in BoundedSeq(Subjects, MaxSubjects)
  /\ handlers \in BoundedSeq(Handlers, MaxHandlers)
  /\ call = "none"
  /\ sel = <<0, 0>>
  /\ out = <<>>

\* v3/v5: name() of one wrapped subject.
test_name(j) ==
  /\ call = "none"
  /\ out' = <<HasName_name(TAnyPerson, make_persons(subjects)[j])>>
  /\ sel' = <<0, j>>
  /\ call' = "name"
  /\ UNCHANGED <<subjects, handlers>>

\* v6::test: one word greeter over the wrapped subjects.
v6_test(i) ==
  /\ call = "none"
  /\ handlers[i].ctor = "word"
  /\ out' = v6_greet_many(TWordGreeter, TAnyPerson, handlers[i].val,
                          make_persons(subjects))
  /\ sel' = <<i, 0>>
  /\ call' = "v6_greet_many"
  /\ UNCHANGED <<subjects, handlers>>

\* v6::test, first call: the hello greeter over the wrapped subjects.
v6_test_hello ==
  /\ call = "none"
  /\ out' = v6_greet_many(THelloGreeter, TAnyPerson, HelloGreeter,
                          make_persons(subjects))
  /\ sel' = <<0, 0>>
  /\ call' = "v6_greet_many_hello"
  /\ UNCHANGED <<subjects, handlers>>

\* v7::test: AnyPersonGreeter(CustomGreeter) over the wrapped subjects.
v7_test ==
  /\ call = "none"
  /\ out' = v7_greet_many(TAnyPersonGreeter(TCustomGreeter), TAnyPerson,
                          AnyPersonGreeter(CustomGreeter), make_persons(subjects))
  /\ sel' = <<0, 0>>
  /\ call' = "v7_greet_many"
  /\ UNCHANGED <<subjects, handlers>>

\* v8::test: the wrapped greeters over the wrapped subjects.
v8_test ==
  /\ call = "none"
  /\ out' = v8_greet_many(TAnyGreeter, TAnyPerson, make_greeters(handlers),
                          make_persons(subjects))
  /\ sel' = <<0, 0>>
  /\ call' = "v8_greet_many"
  /\ UNCHANGED <<subjects, handlers>>

\* v8: greet of one wrapped greeter on one wrapped subject.
v8_greet(i, j) ==
  /\ call = "none"
  /\ out' = <<v8_Greeter_greet(TAnyGreeter, TAnyPerson, make_greeters(handlers)[i],
                               make_persons(subjects)[j])>>
  /\ sel' = <<i, j>>
  /\ call' = "v8_greet"
  /\ UNCHANGED <<subjects, handlers>>

\* The three subject types in each order, for the two nesting shapes of C10.
Orders ==
  <<<<TFormalPerson, TCasualPerson, TAnonymous>>,
    <<TFormalPerson, TAnonymous, TCasualPerson>>,
    <<TCasualPerson, TFormalPerson, TAnonymous>>,
    <<TCasualPerson, TAnonymous, TFormalPerson>>,
    <<TAnonymous, TFormalPerson, TCasualPerson>>,
    <<TAnonymous, TCasualPerson, TFormalPerson>>>>

SubjectType(s) ==
  CASE s.ctor = "formal" -> TFormalPerson
    [] s.ctor = "casual" -> TCasualPerson
    [] s.ctor = "anon" -> TAnonymous

\* Either<A, Either<B, C>> and the value of it that holds x, of type T.
RightNestedType(o) == TEither(o[1], TEither(o[2], o[3]))
RightNested(o, T, x) ==
  CASE T = o[1] -> Left(x)
    [] T = o[2] -> Right(Left(x))
    [] T = o[3] -> Right(Right(x))

\* Either<Either<A, B>, C> and the value of it that holds x, of type T.
LeftNestedType(o) == TEither(TEither(o[1], o[2]), o[3])
LeftNested(o, T, x) ==
  CASE T = o[1] -> Left(Left(x))
    [] T = o[2] -> Left(Right(x))
    [] T = o[3] -> Right(x)

\* v5: name() of one subject held in each nesting shape, and of the subject.
nest_name(k, j) ==
  /\ call = "none"
  /\ LET T == SubjectType(subjects[j])
         x == subjects[j].val
     IN out' = <<HasName_name(RightNestedType(Orders[k]), RightNested(Orders[k], T, x)),
                 HasName_name(LeftNestedType(Orders[k]), LeftNested(Orders[k], T, x)),
                 HasName_name(T, x)>>
  /\ sel' = <<k, j>>
  /\ call' = "nest_name"
  /\ UNCHANGED <<subjects, handlers>>

Next ==
  \/ \E j \in DOMAIN subjects : test_name(j)
  \/ \E i \in DOMAIN handlers : v6_test(i)
  \/ v6_test_hello
  \/ v7_test
  \/ v8_test
  \/ \E i \in DOMAIN handlers, j \in DOMAIN subjects : v8_greet(i, j)

Spec == Init /\ [][Next]_vars

InitNest ==
  /\ subjects \in BoundedSeq(Subjects, MaxSubjects)
  /\ handlers = <<>>
  /\ call = "none"
  /\ sel = <<0, 0>>
  /\ out = <<>>

NextNest ==
  \/ \E k \in DOMAIN Orders, j \in DOMAIN subjects : nest_name(k, j)
  \/ \E j \in DOMAIN subjects : test_name(j)

SpecNest == InitNest /\ [][NextNest]_vars

\* ----------------------------------------------------------------- claims

\* C1: the multi-handler greet_many(gs, ps) returns len(gs) * len(ps) texts,
\* and the text at (0-based) index i * len(ps) + j is gs[i].greet(ps[j]):
\* handler-major, subject-minor, nothing reordered, omitted or duplicated.
C1_HandlerMajor ==
  call = "v8_greet_many" =>
    /\ Len(out) = Len(handlers) * Len(subjects)
    /\ \A i \in 1..Len(handlers), j \in 1..Len(subjects) :
         out[(i - 1) * Len(subjects) + j]
           = AnyGreeter_greet(MakeGreeter(handlers[i]), MakePerson(subjects[j]))

C1_Witness ==
  /\ call = "v8_greet_many"
  /\ Len(handlers) = 2 /\ Len(subjects) = 2
  /\ handlers[1].ctor = "polite" /\ handlers[2].ctor = "person"
  /\ subjects[1].ctor = "formal" /\ subjects[2].ctor = "casual"
  /\ Cardinality({out[n] : n \in DOMAIN out}) = 4

\* C2: the single-handler greet_many(h, xs) (v6 and v7) returns len(xs) texts
\* and the text at index i is h.greet(xs[i]), whatever the other subjects are.
C2_LengthAndOrder ==
  /\ call = "v7_greet_many" =>
       /\ Len(out) = Len(subjects)
       /\ \A j \in 1..Len(subjects) :
            out[j] = v7_Greeter_greet(TAnyPersonGreeter(TCustomGreeter), TAnyPerson,
                                      AnyPersonGreeter(CustomGreeter),
                                      MakePerson(subjects[j]))
  /\ call = "v6_greet_many" =>
       /\ Len(out) = Len(subjects)
       /\ \A j \in 1..Len(subjects) :
            out[j] = v6_Greeter_greet(TWordGreeter, TAnyPerson, handlers[sel[1]].val,
                                      MakePerson(subjects[j]))
  /\ call = "v6_greet_many_hello" =>
       /\ Len(out) = Len(subjects)
       /\ \A j \in 1..Len(subjects) :
            out[j] = v6_Greeter_greet(THelloGreeter, TAnyPerson, HelloGreeter,
                                      MakePerson(subjects[j]))

C2_Witness ==
  /\ call = "v7_greet_many"
  /\ Len(subjects) = 2
  /\ subjects[1].ctor = "anon" /\ subjects[2].ctor = "formal"
  /\ out[1] # out[2]

\* What the claims say a text looks like, stated on the characters.
Frames(t, pre, suf) ==
  /\ Len(t) >= Len(pre) + Len(suf)
  /\ SubSeq(t, 1, Len(pre)) = pre
  /\ SubSeq(t, Len(t) - Len(suf) + 1, Len(t)) = suf

Middle(t, pre, suf) == SubSeq(t, Len(pre) + 1, Len(t) - Len(suf))

DigitValue(c) == CHOOSE d \in 0..9 : <<"0", "1", "2", "3", "4", "5", "6", "7", "8", "9">>[d + 1] = c

RECURSIVE DecimalValue(_)
DecimalValue(d) ==
  IF d = <<>> THEN 0
  ELSE 10 * DecimalValue(SubSeq(d, 1, Len(d) - 1)) + DigitValue(d[Len(d)])

\* d is the decimal numeral of n: digits only, no leading zero, value n.
IsDecimalOf(d, n) ==
  /\ Len(d) >= 1
  /\ \A k \in DOMAIN d : d[k] \in {<<"0", "1", "2", "3", "4", "5", "6", "7", "8", "9">>[e] : e \in 1..10}
  /\ Len(d) > 1 => d[1] # "0"
  /\ DecimalValue(d) = n

NameIs(s, t) ==
  CASE s.ctor = "formal" ->
         t = s.val.title \o <<" ">> \o s.val.first_name \o <<" ">> \o s.val.last_name
    [] s.ctor = "casual" -> t = s.val.name
    [] s.ctor = "anon" ->
         Frames(t, <<"A", "n", "o", "n", "y", "m", "o", "u", "s", " ", "#">>, <<>>) /\ IsDecimalOf(Middle(t, <<"A", "n", "o", "n", "y", "m", "o", "u", "s", " ", "#">>, <<>>), s.val.id)

PerVariantRule(s, t) ==
  CASE s.ctor = "formal" ->
         t = <<"W", "e", "l", "c", "o", "m", "e", " ", "b", "a", "c", "k", ",", " ">> \o s.val.title \o <<" ">> \o s.val.last_name \o <<"!">>
    [] s.ctor = "casual" -> t = <<"H", "e", "l", "l", "o", ",", " ">> \o s.val.name \o <<"!">>
    [] s.ctor = "anon" ->
         /\ Frames(t, <<"H", "e", "l", "l", "o", " ", "s", "t", "r", "a", "n", "g", "e", "r", ",", " ", "y", "o", "u", "r", " ", "I", "D", " ", "i", "s", " ">>, <<".">>)
         /\ IsDecimalOf(Middle(t, <<"H", "e", "l", "l", "o", " ", "s", "t", "r", "a", "n", "g", "e", "r", ",", " ", "y", "o", "u", "r", " ", "I", "D", " ", "i", "s", " ">>, <<".">>), s.val.id)

PersonRule(owner, s, t) ==
  CASE s.ctor = "formal" ->
         LET pre == <<"G", "r", "e", "e", "t", "i", "n", "g", "s", ",", " ">> \o s.val.title \o <<" ">> \o s.val.last_name
                      \o <<"!", " ", "M", "y", " ", "n", "a", "m", "e", " ", "i", "s", " ">>
         IN Frames(t, pre, <<>>) /\ NameIs(owner, Middle(t, pre, <<>>))
    [] s.ctor = "casual" ->
         LET pre == <<"H", "i", ",", " ">> \o s.val.name \o <<"!", " ", "I", " ", "a", "m", " ">>
         IN Frames(t, pre, <<>>) /\ NameIs(owner, Middle(t, pre, <<>>))
    [] s.ctor = "anon" ->
         /\ Frames(t, <<"H", "e", "l", "l", "o", ",", " ", "s", "t", "r", "a", "n", "g", "e", "r", " ", "w", "i", "t", "h", " ", "I", "D", " ", "#">>, <<"!", " ", "W", "h", "a", "t", " ", "i", "s", " ", "y", "o", "u", "r", " ", "n", "a", "m", "e", "?">>)
         /\ IsDecimalOf(Middle(t, <<"H", "e", "l", "l", "o", ",", " ", "s", "t", "r", "a", "n", "g", "e", "r", " ", "w", "i", "t", "h", " ", "I", "D", " ", "#">>, <<"!", " ", "W", "h", "a", "t", " ", "i", "s", " ", "y", "o", "u", "r", " ", "n", "a", "m", "e", "?">>),
                        s.val.id)

WordRule(w, s, t) ==
  /\ Frames(t, w \o <<",", " ">>, <<"!">>)
  /\ NameIs(s, Middle(t, w \o <<",", " ">>, <<"!">>))

RuleOf(h, s, t) ==
  CASE h.ctor = "polite" -> PerVariantRule(s, t)
    [] h.ctor = "person" -> PersonRule(h.val, s, t)
    [] h.ctor = "word" -> WordRule(h.val.greet_word, s, t)

\* The raw nested sums, built with Left and Right and no named constructor.
RawPerson(s) ==
  CASE s.ctor = "formal" -> Left(s.val)
    [] s.ctor = "casual" -> Right(Left(s.val))
    [] s.ctor = "anon" -> Right(Right(s.val))

RawGreeter(h) ==
  CASE h.ctor = "polite" -> Left(Unit(h.val))
    [] h.ctor = "person" -> Right(Left(Unit(PersonGreeter(<<RawPerson(h.val)>>))))
    [] h.ctor = "word" -> Right(Right(WithName(h.val)))

\* C3: an AnyGreeter applied to an AnyPerson gives the text of the rule of
\* exactly that (greeter variant, subject variant) pair, the greeter's tag
\* choosing the rule set and the subject's tag the rule.
C3_PairRule ==
  call = "v8_greet" => RuleOf(handlers[sel[1]], subjects[sel[2]], out[1])

C3_Witness ==
  /\ call = "v8_greet"
  /\ handlers[sel[1]] = [ctor |-> "person", val |-> [ctor |-> "casual", val |-> CasualPerson_new(<<"B", "o", "b">>)]]
  /\ subjects[sel[2]] = [ctor |-> "formal", val |-> FormalPerson_new(<<"M", "r", ".">>, <<"J", "o", "h", "n">>, <<"S", "m", "i", "t", "h">>)]
  /\ out[1] = <<"G", "r", "e", "e", "t", "i", "n", "g", "s", ",", " ", "M", "r", ".", " ", "S", "m", "i", "t", "h", "!", " ", "M", "y", " ", "n", "a", "m", "e", " ", "i", "s", " ", "B", "o", "b">>

\* C4: name() is title, first name and last name joined by single spaces for
\* a titled subject, the stored name for a simple one, "Anonymous #" and the
\* decimal id for an identified one; an Either and AnyPerson give the name()
\* of the subject they hold.
C4_NameFormats ==
  call = "name" =>
    LET s == subjects[sel[2]] IN
    /\ NameIs(s, out[1])
    /\ out[1] = HasName_name(SubjectType(s), s.val)
    /\ HasName_name(AnyPersonGeneric, MakePerson(s)[1]) = HasName_name(SubjectType(s), s.val)

C4_Witness ==
  /\ call = "name"
  /\ subjects[sel[2]] = [ctor |-> "anon", val |-> Anonymous_new(MaxId)]
  /\ Len(out[1]) = 13

\* C5: a named constructor behaves as the raw nested sum: the name() of
\* AnyPerson::formal/casual/anon(x) is that of the raw Either holding x and
\* x.name(), and AnyGreeter::polite/person/word(h).greet(p) is the greet of
\* the raw AnyGreeterGeneric holding h on the raw sum p.0.
C5_ConstructorsAreRaw ==
  /\ call = "name" =>
       LET s == subjects[sel[2]] IN
       /\ out[1] = HasName_name(AnyPersonGeneric, RawPerson(s))
       /\ out[1] = HasName_name(SubjectType(s), s.val)
  /\ call = "v8_greet" =>
       out[1] = v8_Greeter_greet(AnyGreeterGeneric, AnyPersonGeneric,
                                 RawGreeter(handlers[sel[1]]),
                                 RawPerson(subjects[sel[2]]))

C5_Witness ==
  /\ call = "v8_greet"
  /\ handlers[sel[1]].ctor = "person"
  /\ subjects[sel[2]].ctor = "anon"
  /\ subjects[sel[2]].val.id = 8

\* C6: the per-variant handler (v7 CustomGreeter in AnyPersonGreeter, v8
\* Unit<PoliteGreeter>) gives "Welcome back, {title} {last_name}!" for a
\* titled subject, "Hello, {name}!" for a simple one and "Hello stranger,
\* your ID is {id}." for an identified one.
C6_PerVariant ==
  /\ call = "v7_greet_many" =>
       \A j \in 1..Len(subjects) : j \in DOMAIN out /\ PerVariantRule(subjects[j], out[j])
  /\ (call = "v8_greet" /\ handlers[sel[1]].ctor = "polite") =>
       PerVariantRule(subjects[sel[2]], out[1])

C6_Witness ==
  /\ call = "v7_greet_many"
  /\ Len(subjects) = 2
  /\ subjects[1] = [ctor |-> "formal", val |-> FormalPerson_new(<<"M", "r", ".">>, <<"J", "o", "h", "n">>, <<"S", "m", "i", "t", "h">>)]
  /\ subjects[2] = [ctor |-> "anon", val |-> Anonymous_new(8)]
  /\ out = <<<<"W", "e", "l", "c", "o", "m", "e", " ", "b", "a", "c", "k", ",", " ", "M", "r", ".", " ", "S", "m", "i", "t", "h", "!">>, <<"H", "e", "l", "l", "o", " ", "s", "t", "r", "a", "n", "g", "e", "r", ",", " ", "y", "o", "u", "r", " ", "I", "D", " ", "i", "s", " ", "8", ".">>>>

Terminated(t) == Len(t) > 0 /\ t[Len(t)] \in {"!", "."}

EndsWith(t, suf) == Frames(t, <<>>, suf)

\* C7 as claimed: every greeting of every (AnyGreeter, AnyPerson) pair ends
\* with a terminating '!' or '.', the person greeter's texts included.
C7_AllTerminated ==
  call = "v8_greet" => Terminated(out[1])

\* C7 amended: the polite and the word greeter's texts end with the '!' or
\* '.' of their format; the person greeter's end with the owner's name()
\* for a titled or simple subject and with '?' for an identified one.
C7_TerminatedButPerson ==
  call = "v8_greet" =>
    LET h == handlers[sel[1]]
        s == subjects[sel[2]]
    IN /\ h.ctor \in {"polite", "word"} => Terminated(out[1])
       /\ (h.ctor = "person" /\ s.ctor = "formal") =>
            EndsWith(out[1], <<"!", " ", "M", "y", " ", "n", "a", "m", "e", " ", "i", "s", " ">> \o HasName_name(TAnyPerson, MakePerson(h.val)))
       /\ (h.ctor = "person" /\ s.ctor = "casual") =>
            EndsWith(out[1], <<"!", " ", "I", " ", "a", "m", " ">> \o HasName_name(TAnyPerson, MakePerson(h.val)))
       /\ (h.ctor = "person" /\ s.ctor = "anon") =>
            EndsWith(out[1], <<"!", " ", "W", "h", "a", "t", " ", "i", "s", " ", "y", "o", "u", "r", " ", "n", "a", "m", "e", "?">>)

C7_Witness ==
  /\ call = "v8_greet"
  /\ handlers[sel[1]].ctor = "person"
  /\ subjects[sel[2]].ctor = "casual"
  /\ out[1] = <<"H", "i", ",", " ", "A", "l", "i", "c", "e", "!", " ", "I", " ", "a", "m", " ", "B", "o", "b">>

\* C8: a word greeter built with W (v6 WordGreeter, v8 WithName<WordGreeter>)
\* returns "{W}, {name(p)}!" for every subject p, so subjects with equal
\* name() get equal greetings.
C8_WordGreeter ==
  /\ call = "v6_greet_many" =>
       LET w == handlers[sel[1]].val.greet_word
           name(j) == HasName_name(TAnyPerson, MakePerson(subjects[j]))
       IN /\ \A j \in 1..Len(subjects) :
               j \in DOMAIN out /\ out[j] = w \o <<",", " ">> \o name(j) \o <<"!">>
          /\ \A j, k \in 1..Len(subjects) : name(j) = name(k) => out[j] = out[k]
  /\ (call = "v8_greet" /\ handlers[sel[1]].ctor = "word") =>
       out[1] = handlers[sel[1]].val.greet_word \o <<",", " ">>
                  \o HasName_name(TAnyPerson, MakePerson(subjects[sel[2]])) \o <<"!">>

C8_Witness ==
  /\ call = "v6_greet_many"
  /\ handlers[sel[1]].val.greet_word = <<"W", "e", "l", "c", "o", "m", "e">>
  /\ Len(subjects) = 2
  /\ subjects[1].ctor = "casual" /\ subjects[2].ctor = "anon"
  /\ out = <<<<"W", "e", "l", "c", "o", "m", "e", ",", " ", "A", "n", "o", "n", "y", "m", "o", "u", "s", " ", "#", "8", "!">>, <<"W", "e", "l", "c", "o", "m", "e", ",", " ", "A", "n", "o", "n", "y", "m", "o", "u", "s", " ", "#", "8", "!">>>>

IsText(t) == DOMAIN t = 1..Len(t) /\ \A k \in 1..Len(t) : t[k] \in STRING /\ Len(t[k]) = 1

\* C9: greet returns a text for every AnyGreeter and every AnyPerson, never
\* an empty or missing output, and so does name() for every subject.
C9_Total ==
  /\ call = "v8_greet" => Len(out) = 1 /\ IsText(out[1]) /\ Len(out[1]) > 0
  /\ call = "v8_greet_many" =>
       /\ Len(out) = Len(handlers) * Len(subjects)
       /\ \A n \in 1..Len(out) : IsText(out[n]) /\ Len(out[n]) > 0
  /\ call = "name" => Len(out) = 1 /\ IsText(out[1]) /\ Len(out[1]) > 0

C9_Witness ==
  /\ call = "v8_greet"
  /\ handlers[sel[1]].ctor = "person"
  /\ subjects[sel[2]] = [ctor |-> "anon", val |-> Anonymous_new(0)]
  /\ Len(out[1]) > 0

\* C10: a subject held in Either<A, Either<B, C>> and the same subject held
\* in Either<Either<A, B>, C> have the same name(), the subject's own.
C10_NestingShape ==
  call = "nest_name" => out[1] = out[2] /\ out[2] = out[3] /\ NameIs(subjects[sel[2]], out[3])

C10_Witness ==
  /\ call = "nest_name"
  /\ Orders[sel[1]] = <<TCasualPerson, TAnonymous, TFormalPerson>>
  /\ subjects[sel[2]] = [ctor |-> "anon", val |-> Anonymous_new(8)]
  /\ out = <<<<"A", "n", "o", "n", "y", "m", "o", "u", "s", " ", "#", "8">>, <<"A", "n", "o", "n", "y", "m", "o", "u", "s", " ", "#", "8">>, <<"A", "n", "o", "n", "y", "m", "o", "u", "s", " ", "#", "8">>>>

====
